---- MODULE Spec2Model ----
(***************************************************************************)
(* HardwareMixer (src/main.py): a Mixer object that discovers a serial     *)
(* device, performs the 'Hardware Mixer' handshake and decodes volume      *)
(* frames, and a PulseAudioConnection whose main-thread loop (listen)      *)
(* applies the decoded volumes to PulseAudio sink inputs while a           *)
(* background thread (_mixer_listener) keeps reading frames.               *)
(*                                                                         *)
(* Python attribute self._x of Mixer is written self_x here.  Sequences    *)
(* are 1-based, so Python index k is position k + 1.  A volume is the      *)
(* rational number byte / 100, kept as a reduced pair <<num, den>>.        *)
(*                                                                         *)
(* The serial port and PulseAudio are the environment.  pyserial opens     *)
(* the port without a timeout, so read(n) returns exactly n bytes or       *)
(* raises SerialException.  pulsectl's event_listen clears the stop flag   *)
(* when it enters its poll loop and event_listen_stop only sets that flag  *)
(* ("does nothing if libpulse poll is not running yet").                   *)
(***************************************************************************)
EXTENDS Integers, Sequences, FiniteSets, TLC

\* ------------------------------------------------------------------ bounds
MaxChannels == 3      \* largest channel count a device reports
MaxFrames == 2        \* volume frames the device sends in one run
MaxOutages == 1       \* read failures (SerialException in port.read)
MaxStreams == 2       \* sink inputs returned by one sink_input_list()

\* --------------------------------------------------------------- constants
MagicLen == 14        \* read_all()[:14]
VolumeScale == 100    \* values[i] / 100

\* b'Hardware Mixer'
Magic == <<72, 97, 114, 100, 119, 97, 114, 101, 32, 77, 105, 120, 101, 114>>

\* what read_all() can return after the 2 s settle delay
Preambles ==
  { Magic,                          \* exact identification string
    Magic \o <<13, 10>>,            \* identification string and more bytes
    SubSeq(Magic, 1, MagicLen - 1), \* truncated read
    <<>>,                           \* nothing received
    <<72>> \o SubSeq(Magic, 1, MagicLen - 1) }  \* 14 other bytes

NoPreamble == <<0>>   \* read_all() not called on the current candidate yet

FrameBytes == {50, 80}  \* byte values a frame is built from

Frames(n) == [1..n -> FrameBytes]

\* application names of sink inputs; NoName is an absent or empty attribute
NoName == ""
AppNames == {"A", "B", "C"}

\* routing tables built by __main__ (at least two entries, see line 143)
RoutingTables ==
  { << <<"A", "B">>, <<"ANY">> >>,
    << <<"A">>, <<"B">> >>,
    << <<"ANY">>, <<"A">> >>,
    << <<"A">>, <<"A", "B">>, <<"ANY">> >> }

\* ----------------------------------------------------------------- helpers
RECURSIVE GCD(_, _)
GCD(a, b) == IF b = 0 THEN a ELSE GCD(b, a % b)

\* the rational n / d in lowest terms
Rat(n, d) == LET g == GCD(n, d) IN <<n \div g, d \div g>>

\* values[i] / 100
Decode(b) == Rat(b, VolumeScale)

\* the integer 0 that __init__ puts in the vector
Zero == <<0, 1>>

RECURSIVE FromBytes(_)
\* int.from_bytes(bs, 'big')
FromBytes(bs) ==
  IF Len(bs) = 0 THEN 0
  ELSE 256 * FromBytes(SubSeq(bs, 1, Len(bs) - 1)) + bs[Len(bs)]

Min(a, b) == IF a < b THEN a ELSE b

\* read_all()[:14] == b'Hardware Mixer', accepting a partial preamble
PreambleMatchesPrefix(p) ==
  /\ Len(p) > 0
  /\ SubSeq(p, 1, Min(MagicLen, Len(p))) = SubSeq(Magic, 1, Min(MagicLen, Len(p)))

\* read_all()[:14] == b'Hardware Mixer'
PreambleMatches(p) == SubSeq(p, 1, Min(MagicLen, Len(p))) = Magic

\* ------------------------------------------------------------------- state
VARIABLES
  phase,          \* "init": main thread in Mixer.__init__; "running": both
                  \* loops started; "crashed": __init__ raised
  mpc,            \* position of the code executing Mixer methods
  caller,         \* who called _connect_mixer: "init" or "read"
  portOpen,       \* self._port is open
  openCount,      \* serial ports this process holds open
  lastPreamble,   \* bytes read_all() returned for the current candidate
  handshakeSent,  \* b"\0" written to the current candidate
  reply,          \* bytes the last read(1) of the handshake returned
  self_channels,  \* Mixer._channels
  self_volumes,   \* Mixer._volumes
  values,         \* local of read_volumes: the frame being decoded
  wi,             \* loop index i of read_volumes (0-based)
  lastRead,       \* how the last read_volumes ended: "frame" or "reconnect"
  mixerExc,       \* exception that left the Mixer code, "none" if none
  frames,         \* frames received so far
  outages,        \* read failures so far
  samples,        \* history: the vectors stored at read_volumes boundaries
  sigSeq          \* history: Len(samples) at the last mixer signal

mixerVars == <<phase, mpc, caller, portOpen, openCount, lastPreamble, handshakeSent,
               reply, self_channels, self_volumes, values, wi, lastRead, mixerExc,
               frames, outages, samples, sigSeq>>

VARIABLES
  channels,       \* global routing table
  rpc,            \* position of the main thread in listen()
  snapshot,       \* local `volumes` of listen(): the copy being built/used
  snapSeq,        \* history: Len(samples) when the copy began
  mask,           \* index into event_masks of the current event filter
  loopStop,       \* pulsectl _loop_stop flag
  stopBy,         \* history: who set loopStop last: "mixer" or "backend"
  wokenBy,        \* history: why the last event_listen returned, kept
                  \* while the copy of the next pass is made
  wakeSeq,        \* history: sigSeq of the signal that woke the router
  sinkCount,      \* sink inputs handled in the running for loop
  lastCall,       \* history: outcome of the last sink input handled in
                  \* the running for loop
  routerExc       \* exception that left listen(), "none" if none

routerVars == <<channels, rpc, snapshot, snapSeq, mask, loopStop, stopBy,
                wokenBy, wakeSeq, sinkCount, lastCall, routerExc>>

vars == <<mixerVars, routerVars>>

NoCall == [app |-> NoName, kind |-> "none", index |-> 0, vol |-> Zero]

\* Mixer.__init__ up to the call of _connect_mixer, with the globals set
Init ==
  /\ phase = "init"
  /\ mpc = "connect"
  /\ caller = "init"
  /\ portOpen = FALSE
  /\ openCount = 0
  /\ lastPreamble = NoPreamble
  /\ handshakeSent = FALSE
  /\ reply = <<>>
  /\ self_channels = 0
  /\ self_volumes = <<Zero, Zero>>
  /\ values = <<>>
  /\ wi = 0
  /\ lastRead = "none"
  /\ mixerExc = "none"
  /\ frames = 0
  /\ outages = 0
  /\ samples = <<>>
  /\ sigSeq = 0
  /\ channels \in RoutingTables
  /\ rpc = "notstarted"
  /\ snapshot = <<>>
  /\ snapSeq = 0
  /\ mask = 0
  /\ loopStop = FALSE
  /\ stopBy = "none"
  /\ wokenBy = "none"
  /\ wakeSeq = 0
  /\ sinkCount = 0
  /\ lastCall = NoCall
  /\ routerExc = "none"

\* ------------------------------------------------------------ Mixer (11-69)
routerRest == <<channels, snapshot, snapSeq, loopStop, stopBy, wokenBy,
                wakeSeq, sinkCount, lastCall, routerExc>>

\* an exception leaves the Mixer code: in __init__ it ends the process before
\* PulseAudioConnection exists, in the thread it ends _mixer_listener
MixerRaises(exc) ==
  /\ mixerExc' = exc
  /\ mpc' = "dead"
  /\ phase' = IF phase = "init" THEN "crashed" ELSE phase

\* read_volumes returns.  Returning to __init__ completes Mixer(); then
\* PulseAudioConnection.__init__ sets event_masks[9] and starts the thread,
\* and the main thread enters listen().  Returning to _mixer_listener
\* continues at event_listen_stop().
ReadVolumesReturns(kind, vol) ==
  /\ lastRead' = kind
  /\ IF phase = "init"
       THEN /\ phase' = "running"
            /\ mpc' = "read"
            /\ rpc' = "get"
            /\ mask' = 9
            /\ samples' = <<vol>>
       ELSE /\ phase' = phase
            /\ mpc' = "signal"
            /\ rpc' = rpc
            /\ mask' = mask
            /\ samples' = IF kind = "frame" THEN Append(samples, vol)
                                            ELSE samples

\* _connect_mixer starting its scan without closing the port it holds
ConnectCloseSkipped ==
  /\ mpc = "connect"
  /\ mpc' = "scan"
  /\ UNCHANGED <<phase, caller, portOpen, openCount, lastPreamble, handshakeSent, reply,
                 self_channels, self_volumes, values, wi, lastRead, mixerExc,
                 frames, outages, samples, sigSeq, routerVars>>

\* lines 35-36: close whatever port the object holds
ConnectClose ==
  /\ mpc = "connect"
  /\ portOpen' = FALSE
  /\ openCount' = IF portOpen THEN openCount - 1 ELSE openCount
  /\ mpc' = "scan"
  /\ UNCHANGED <<phase, caller, lastPreamble, handshakeSent, reply, self_channels,
                 self_volumes, values, wi, lastRead, mixerExc, frames,
                 outages, samples, sigSeq, routerVars>>

\* lines 38-40: the next port is a usb Arduino port and opens.  (A port that
\* fails the filter, and a pass that finds no port and sleeps, change
\* nothing: the code stays at the scan.)
OpenCandidate ==
  /\ mpc = "scan"
  /\ portOpen' = TRUE
  /\ openCount' = openCount + 1
  /\ lastPreamble' = NoPreamble
  /\ handshakeSent' = FALSE
  /\ mpc' = "preamble"
  /\ UNCHANGED <<phase, caller, reply, self_channels, self_volumes, values, wi,
                 lastRead, mixerExc, frames, outages, samples, sigSeq,
                 routerVars>>

\* line 40: serial.Serial(i.device) raises SerialException; nothing in
\* _connect_mixer catches it
OpenFails ==
  /\ mpc = "scan"
  /\ MixerRaises("SerialException")
  /\ lastPreamble' = NoPreamble
  /\ UNCHANGED <<caller, portOpen, openCount, handshakeSent, reply, self_channels,
                 self_volumes, values, wi, lastRead, frames, outages,
                 samples, sigSeq, routerVars>>

\* line 39: a usb port whose manufacturer is None: None[:7] raises TypeError
ScanNoManufacturer ==
  /\ mpc = "scan"
  /\ MixerRaises("TypeError")
  /\ lastPreamble' = NoPreamble
  /\ UNCHANGED <<caller, portOpen, openCount, handshakeSent, reply, self_channels,
                 self_volumes, values, wi, lastRead, frames, outages,
                 samples, sigSeq, routerVars>>

\* lines 41-42 and 46: read the preamble; a mismatch closes the candidate
ReadPreamble ==
  /\ mpc = "preamble"
  /\ \E p \in Preambles :
       /\ lastPreamble' = p
       /\ IF PreambleMatches(p)
            THEN /\ mpc' = "handshake"
                 /\ UNCHANGED <<portOpen, openCount>>
            ELSE /\ mpc' = "scan"
                 /\ portOpen' = FALSE
                 /\ openCount' = IF portOpen THEN openCount - 1
                                             ELSE openCount
  /\ UNCHANGED <<phase, caller, handshakeSent, reply, self_channels, self_volumes,
                 values, wi, lastRead, mixerExc, frames, outages, samples,
                 sigSeq, routerVars>>

\* line 42: read_all() raises SerialException (device unplugged while settling)
PreambleReadFails ==
  /\ mpc = "preamble"
  /\ MixerRaises("SerialException")
  /\ UNCHANGED <<caller, portOpen, openCount, lastPreamble, handshakeSent, reply,
                 self_channels, self_volumes, values, wi, lastRead, frames,
                 outages, samples, sigSeq, routerVars>>

\* lines 43-45: send the handshake byte, read the channel count, return
Handshake ==
  /\ mpc = "handshake"
  /\ handshakeSent' = TRUE
  /\ \E n \in 0..MaxChannels : reply' = <<n>>
  /\ self_channels' = FromBytes(reply')
  /\ IF caller = "init"
       THEN \* back in __init__, which calls read_volumes (line 24)
            /\ mpc' = "read"
            /\ UNCHANGED <<phase, lastRead, samples, rpc, mask>>
       ELSE \* back in the except clause of read_volumes (line 60)
            ReadVolumesReturns("reconnect", self_volumes)
  /\ UNCHANGED <<caller, portOpen, openCount, lastPreamble, self_volumes, values, wi,
                 mixerExc, frames, outages, sigSeq, routerRest>>

\* lines 43-44: write() or read(1) raises SerialException
HandshakeFails ==
  /\ mpc = "handshake"
  /\ MixerRaises("SerialException")
  /\ UNCHANGED <<caller, portOpen, openCount, lastPreamble, handshakeSent, reply,
                 self_channels, self_volumes, values, wi, lastRead, frames,
                 outages, samples, sigSeq, routerVars>>

\* line 56: the device sends a frame of self._channels bytes
ReadFrame ==
  /\ mpc = "read"
  /\ self_channels > 0
  /\ frames < MaxFrames
  /\ \E f \in Frames(self_channels) : values' = f
  /\ wi' = 0
  /\ frames' = frames + 1
  /\ mpc' = "write"
  /\ UNCHANGED <<phase, caller, portOpen, openCount, lastPreamble, handshakeSent, reply,
                 self_channels, self_volumes, lastRead, mixerExc, outages,
                 samples, sigSeq, routerVars>>

\* lines 56-57 with self._channels = 0: read(0) returns b'' at once and the
\* loop body never runs
ReadEmpty ==
  /\ mpc = "read"
  /\ self_channels = 0
  /\ values' = <<>>
  /\ wi' = 0
  /\ ReadVolumesReturns("empty", self_volumes)
  /\ UNCHANGED <<caller, portOpen, openCount, lastPreamble, handshakeSent, reply,
                 self_channels, self_volumes, mixerExc, frames, outages,
                 sigSeq, routerRest>>

\* a failed read that is retried on the same port without rediscovery
ReadFailsRetries ==
  /\ mpc = "read"
  /\ outages < MaxOutages
  /\ outages' = outages + 1
  /\ UNCHANGED <<phase, mpc, caller, portOpen, openCount, lastPreamble, handshakeSent,
                 reply, self_channels, self_volumes, values, wi, lastRead,
                 mixerExc, frames, samples, sigSeq, routerVars>>

\* lines 56, 59-60: read() raises SerialException; reconnect
ReadFails ==
  /\ mpc = "read"
  /\ outages < MaxOutages
  /\ outages' = outages + 1
  /\ caller' = "read"
  /\ mpc' = "connect"
  /\ UNCHANGED <<phase, portOpen, openCount, lastPreamble, handshakeSent, reply, self_channels,
                 self_volumes, values, wi, lastRead, mixerExc, frames,
                 samples, sigSeq, routerVars>>

\* the vector after self._volumes[i] = values[i] / 100
StoreVolume(vols, i, vals) == [vols EXCEPT ![i + 1] = Decode(vals[i + 1])]

\* lines 57-58: one iteration of the loop, an in-place write of one element;
\* after the last one the call returns
WriteVolume ==
  /\ mpc = "write"
  /\ wi < self_channels
  /\ wi < Len(self_volumes)
  /\ self_volumes' = StoreVolume(self_volumes, wi, values)
  /\ wi' = wi + 1
  /\ IF wi + 1 = self_channels
       THEN ReadVolumesReturns("frame", self_volumes')
       ELSE UNCHANGED <<phase, mpc, lastRead, samples, rpc, mask>>
  /\ UNCHANGED <<caller, portOpen, openCount, lastPreamble, handshakeSent, reply,
                 self_channels, values, mixerExc, frames, outages, sigSeq,
                 routerRest>>

\* line 58: self._volumes has two elements; index 2 raises IndexError, which
\* the except clause (SerialException only) does not catch
WriteIndexError ==
  /\ mpc = "write"
  /\ wi < self_channels
  /\ wi >= Len(self_volumes)
  /\ MixerRaises("IndexError")
  /\ UNCHANGED <<caller, portOpen, openCount, lastPreamble, handshakeSent, reply,
                 self_channels, self_volumes, values, wi, lastRead, frames,
                 outages, samples, sigSeq, routerVars>>

\* line 101: event_listen_stop() from the mixer thread sets the stop flag
MixerSignal ==
  /\ mpc = "signal"
  /\ loopStop' = TRUE
  /\ stopBy' = "mixer"
  /\ sigSeq' = Len(samples)
  /\ mpc' = "read"
  /\ UNCHANGED <<phase, caller, portOpen, openCount, lastPreamble, handshakeSent, reply,
                 self_channels, self_volumes, values, wi, lastRead, mixerExc,
                 frames, outages, samples, channels, rpc, snapshot, snapSeq,
                 mask, wokenBy, wakeSeq, sinkCount, lastCall, routerExc>>

MixerStep ==
  \/ ConnectClose \/ OpenCandidate \/ OpenFails \/ ScanNoManufacturer
  \/ ReadPreamble \/ PreambleReadFails \/ Handshake \/ HandshakeFails
  \/ ReadFrame \/ ReadEmpty \/ ReadFails \/ WriteVolume \/ WriteIndexError
  \/ MixerSignal

\* --------------------------------------- PulseAudioConnection.listen (103-133)
\* app_name in channel_apps
Contains(channel_apps, app_name) ==
  \E j \in 1..Len(channel_apps) : channel_apps[j] = app_name

RECURSIVE FirstMatch(_, _, _)
\* lines 121-124: position of the first entry, from position i on, that
\* contains app_name; 0 when the loop runs to its end (the for-else branch)
FirstMatch(tbl, app_name, i) ==
  IF i > Len(tbl) THEN 0
  ELSE IF Contains(tbl[i], app_name) THEN i
  ELSE FirstMatch(tbl, app_name, i + 1)

RECURSIVE ListIndex(_, _, _)
\* tbl.index(x) + 1 searched from position i; 0 stands for ValueError
ListIndex(tbl, x, i) ==
  IF i > Len(tbl) THEN 0
  ELSE IF tbl[i] = x THEN i
  ELSE ListIndex(tbl, x, i + 1)

\* lines 147-150: channels.index(["ANY"]) + 1, or False (written 0)
any_controller == ListIndex(channels, <<"ANY">>, 1)

\* lines 121-127: position in `volumes` that listen() subscripts for a sink
\* input named app_name; 0 when it makes no volume_set_all_chans call
RouteIndex(app_name) ==
  LET m == FirstMatch(channels, app_name, 1)
  IN  IF m # 0 THEN m
      ELSE IF any_controller # 0 THEN (any_controller - 1) + 1
      ELSE 0

RouterRaises(exc) ==
  /\ routerExc' = exc
  /\ rpc' = "dead"

\* line 110 / line 69: copy.deepcopy builds the new list one element at a
\* time; the mixer thread can run between two elements
GetVolumes ==
  /\ rpc = "get"
  /\ snapshot' = Append(snapshot, self_volumes[Len(snapshot) + 1])
  /\ snapSeq' = IF Len(snapshot) = 0 THEN Len(samples) ELSE snapSeq
  /\ rpc' = IF Len(snapshot) + 1 = Len(self_volumes) THEN "mask8" ELSE "get"
  /\ UNCHANGED <<mixerVars, channels, mask, loopStop, stopBy, wokenBy,
                 wakeSeq, sinkCount, lastCall, routerExc>>

\* line 112
SetMask8 ==
  /\ rpc = "mask8"
  /\ mask' = 8
  /\ rpc' = "list"
  /\ wokenBy' = "none"
  /\ wakeSeq' = 0
  /\ UNCHANGED <<mixerVars, channels, snapshot, snapSeq, loopStop, stopBy,
                 sinkCount, lastCall, routerExc>>

\* line 115: sink_input_list() returns
SinkInputList ==
  /\ rpc = "list"
  /\ rpc' = "sinks"
  /\ UNCHANGED <<mixerVars, channels, snapshot, snapSeq, mask, loopStop,
                 stopBy, wokenBy, wakeSeq, sinkCount, lastCall, routerExc>>

\* line 115: sink_input_list() raises; the call is outside the try block
SinkInputListFails ==
  /\ rpc = "list"
  /\ RouterRaises("PulseOperationFailed")
  /\ UNCHANGED <<mixerVars, channels, snapshot, snapSeq, mask, loopStop,
                 stopBy, wokenBy, wakeSeq, sinkCount, lastCall>>

\* a sink input without application.name handled like a name no entry
\* contains: it gets the catch-all's volume
SinkNoNameRouted ==
  /\ rpc = "sinks"
  /\ sinkCount < MaxStreams
  /\ any_controller \in 1..Len(snapshot)
  /\ sinkCount' = sinkCount + 1
  /\ lastCall' = [app |-> NoName, kind |-> "set", index |-> any_controller,
                  vol |-> snapshot[any_controller]]
  /\ UNCHANGED <<mixerVars, channels, rpc, snapshot, snapSeq, mask, loopStop,
                 stopBy, wokenBy, wakeSeq, routerExc>>

\* lines 116-118: a sink input without application.name is skipped
SinkNoName ==
  /\ rpc = "sinks"
  /\ sinkCount < MaxStreams
  /\ sinkCount' = sinkCount + 1
  /\ lastCall' = [app |-> NoName, kind |-> "skip", index |-> 0, vol |-> Zero]
  /\ UNCHANGED <<mixerVars, channels, rpc, snapshot, snapSeq, mask, loopStop,
                 stopBy, wokenBy, wakeSeq, routerExc>>

\* lines 121-127: no entry matches and any_controller is False
SinkUnrouted ==
  /\ rpc = "sinks"
  /\ sinkCount < MaxStreams
  /\ \E app \in AppNames :
       /\ RouteIndex(app) = 0
       /\ lastCall' = [app |-> app, kind |-> "none", index |-> 0, vol |-> Zero]
  /\ sinkCount' = sinkCount + 1
  /\ UNCHANGED <<mixerVars, channels, rpc, snapshot, snapSeq, mask, loopStop,
                 stopBy, wokenBy, wakeSeq, routerExc>>

\* a volume-set call that reads the mixer's vector instead of the copy
\* taken at the top of the pass
SinkVolumeSetLive ==
  /\ rpc = "sinks"
  /\ sinkCount < MaxStreams
  /\ \E app \in AppNames :
       /\ RouteIndex(app) \in 1..Len(self_volumes)
       /\ lastCall' = [app |-> app, kind |-> "set", index |-> RouteIndex(app),
                       vol |-> self_volumes[RouteIndex(app)]]
  /\ sinkCount' = sinkCount + 1
  /\ UNCHANGED <<mixerVars, channels, rpc, snapshot, snapSeq, mask, loopStop,
                 stopBy, wokenBy, wakeSeq, routerExc>>

\* lines 123 / 127: volume_set_all_chans(sink, volumes[k]) succeeds
SinkVolumeSet ==
  /\ rpc = "sinks"
  /\ sinkCount < MaxStreams
  /\ \E app \in AppNames :
       /\ RouteIndex(app) \in 1..Len(snapshot)
       /\ lastCall' = [app |-> app, kind |-> "set", index |-> RouteIndex(app),
                       vol |-> snapshot[RouteIndex(app)]]
  /\ sinkCount' = sinkCount + 1
  /\ UNCHANGED <<mixerVars, channels, rpc, snapshot, snapSeq, mask, loopStop,
                 stopBy, wokenBy, wakeSeq, routerExc>>

\* the PulseOperationFailed of a volume-set call leaving listen()
SinkVolumeSetFailsPropagates ==
  /\ rpc = "sinks"
  /\ sinkCount < MaxStreams
  /\ \E app \in AppNames :
       /\ RouteIndex(app) \in 1..Len(snapshot)
       /\ lastCall' = [app |-> app, kind |-> "failed",
                       index |-> RouteIndex(app),
                       vol |-> snapshot[RouteIndex(app)]]
  /\ sinkCount' = sinkCount + 1
  /\ RouterRaises("PulseOperationFailed")
  /\ UNCHANGED <<mixerVars, channels, snapshot, snapSeq, mask, loopStop,
                 stopBy, wokenBy, wakeSeq>>

\* lines 123 / 127-129: the call raises PulseOperationFailed, which is passed
SinkVolumeSetFails ==
  /\ rpc = "sinks"
  /\ sinkCount < MaxStreams
  /\ \E app \in AppNames :
       /\ RouteIndex(app) \in 1..Len(snapshot)
       /\ lastCall' = [app |-> app, kind |-> "failed",
                       index |-> RouteIndex(app),
                       vol |-> snapshot[RouteIndex(app)]]
  /\ sinkCount' = sinkCount + 1
  /\ UNCHANGED <<mixerVars, channels, rpc, snapshot, snapSeq, mask, loopStop,
                 stopBy, wokenBy, wakeSeq, routerExc>>

\* lines 123 / 127: volumes[k] with k beyond the two-element copy raises
\* IndexError, which the except clause (PulseOperationFailed) does not catch
SinkIndexError ==
  /\ rpc = "sinks"
  /\ sinkCount < MaxStreams
  /\ \E app \in AppNames :
       /\ RouteIndex(app) > Len(snapshot)
       /\ lastCall' = [app |-> app, kind |-> "indexerror",
                       index |-> RouteIndex(app), vol |-> Zero]
  /\ sinkCount' = sinkCount + 1
  /\ RouterRaises("IndexError")
  /\ UNCHANGED <<mixerVars, channels, snapshot, snapSeq, mask, loopStop,
                 stopBy, wokenBy, wakeSeq>>

\* the for loop ending without the filter being restored
SetMask9Skipped ==
  /\ rpc = "sinks"
  /\ rpc' = "listen_enter"
  /\ sinkCount' = 0
  /\ lastCall' = NoCall
  /\ UNCHANGED <<mixerVars, channels, snapshot, snapSeq, mask, loopStop,
                 stopBy, wokenBy, wakeSeq, routerExc>>

\* line 131: the for loop is over; restore the filter
SetMask9 ==
  /\ rpc = "sinks"
  /\ mask' = 9
  /\ rpc' = "listen_enter"
  /\ sinkCount' = 0
  /\ lastCall' = NoCall
  /\ UNCHANGED <<mixerVars, channels, snapshot, snapSeq, loopStop, stopBy,
                 wokenBy, wakeSeq, routerExc>>

\* event_listen() entering its poll loop without clearing the stop flag
EventListenEnterKeepsFlag ==
  /\ rpc = "listen_enter"
  /\ rpc' = "listen"
  /\ UNCHANGED <<mixerVars, channels, snapshot, snapSeq, mask, loopStop,
                 stopBy, wokenBy, wakeSeq, sinkCount, lastCall, routerExc>>

\* line 133: event_listen() enters its poll loop, clearing the stop flag
EventListenEnter ==
  /\ rpc = "listen_enter"
  /\ loopStop' = FALSE
  /\ stopBy' = "none"
  /\ rpc' = "listen"
  /\ UNCHANGED <<mixerVars, channels, snapshot, snapSeq, mask, wokenBy,
                 wakeSeq, sinkCount, lastCall, routerExc>>

\* line 87: a PulseAudio event of the subscribed class arrives while the
\* loop polls; the callback calls event_listen_stop()
BackendEvent ==
  /\ rpc = "listen"
  /\ ~loopStop
  /\ loopStop' = TRUE
  /\ stopBy' = "backend"
  /\ UNCHANGED <<mixerVars, channels, rpc, snapshot, snapSeq, mask, wokenBy,
                 wakeSeq, sinkCount, lastCall, routerExc>>

\* event_listen() returning whether or not the stop flag is set
EventListenReturnsSpurious ==
  /\ rpc = "listen"
  /\ wokenBy' = stopBy
  /\ wakeSeq' = IF stopBy = "mixer" THEN sigSeq ELSE 0
  /\ snapshot' = <<>>
  /\ rpc' = "get"
  /\ UNCHANGED <<mixerVars, channels, snapSeq, mask, loopStop, stopBy,
                 sinkCount, lastCall, routerExc>>

\* line 133 -> 108: event_listen() returns because the stop flag is set and
\* the next pass begins
EventListenReturns ==
  /\ rpc = "listen"
  /\ loopStop
  /\ wokenBy' = stopBy
  /\ wakeSeq' = IF stopBy = "mixer" THEN sigSeq ELSE 0
  /\ snapshot' = <<>>
  /\ rpc' = "get"
  /\ UNCHANGED <<mixerVars, channels, snapSeq, mask, loopStop, stopBy,
                 sinkCount, lastCall, routerExc>>

RouterStep ==
  \/ GetVolumes \/ SetMask8 \/ SinkInputList \/ SinkInputListFails
  \/ SinkNoName \/ SinkUnrouted \/ SinkVolumeSet \/ SinkVolumeSetFails
  \/ SinkIndexError \/ SetMask9 \/ EventListenEnter \/ EventListenReturns

Next == MixerStep \/ RouterStep \/ BackendEvent


Spec == Init /\ [][Next]_vars

\* steps the two threads take on their own; frames, port failures and
\* PulseAudio events are the environment's and carry no fairness
MixerInternal == ConnectClose \/ WriteVolume \/ WriteIndexError \/ MixerSignal

RouterInternal ==
  \/ GetVolumes \/ SetMask8 \/ SinkInputList \/ SetMask9 \/ EventListenEnter
  \/ EventListenReturns

\* both threads are scheduled: a step that stays enabled is taken
FairSpec ==
  /\ Init /\ [][Next]_vars
  /\ WF_vars(MixerInternal)
  /\ WF_vars(RouterInternal)

\* ================================================================== claims
\* _connect_mixer has returned and no read failure has sent it back
Connected == mpc \in {"read", "write", "signal"}

\* rediscovery after a read failure is under way
Rediscovering ==
  /\ caller = "read"
  /\ mpc \in {"connect", "scan", "preamble", "handshake"}

\* the first 14 bytes of p are 'Hardware Mixer'
FirstBytesAreMagic(p) ==
  /\ Len(p) >= MagicLen
  /\ \A i \in 1..MagicLen : p[i] = Magic[i]

\* v is the number b / 100
IsHundredth(v, b) == v[1] * VolumeScale = b * v[2]

\* the vectors that were the whole stored sample at some boundary of
\* read_volumes, and the one the running read_volumes is about to complete
CompleteSamples ==
  {samples[k] : k \in 1..Len(samples)}
  \cup (IF mpc = "write" /\ self_channels <= Len(self_volumes)
          THEN {[i \in 1..Len(self_volumes) |->
                   IF i <= self_channels THEN Decode(values[i])
                                         ELSE self_volumes[i]]}
          ELSE {})

\* C1: the vector get_volumes returns is a complete sample, the one stored
\* before a concurrent read_volumes began or the one it stores, never a mix
\* of the two.
C1_SnapshotIsComplete ==
  (rpc = "mask8") => (snapshot \in CompleteSamples)

\* positions of the routing-table entries whose name set contains app
MatchingEntries(app) ==
  {k \in 1..Len(channels) : app \in {channels[k][j] : j \in 1..Len(channels[k])}}

\* positions of the catch-all entries
CatchAllEntries == {k \in 1..Len(channels) : channels[k] = <<"ANY">>}

SetMin(S) == CHOOSE x \in S : \A y \in S : x <= y

\* a volume-set call was made for the last sink input, with snapshot[k]
CalledWith(k) ==
  /\ lastCall.kind \in {"set", "failed"}
  /\ k \in DOMAIN snapshot
  /\ lastCall.vol = snapshot[k]

\* C2: a named stream gets snapshot[k] for the first entry k, in table order,
\* that contains its name; with no such entry it gets the catch-all's
\* snapshot value, and without a catch-all no volume-set call is made.
C2_RoutingByTableOrder ==
  (rpc \in {"sinks", "dead"} /\ lastCall.app # NoName) =>
    IF MatchingEntries(lastCall.app) # {}
      THEN CalledWith(SetMin(MatchingEntries(lastCall.app)))
      ELSE IF CatchAllEntries # {}
        THEN CalledWith(SetMin(CatchAllEntries))
        ELSE lastCall.kind = "none"

\* C3: no exception leaves read_volumes, whatever the transport does, so the
\* mixer thread that calls it never dies.
C3_ReadVolumesNeverRaises ==
  ~(mpc = "dead" /\ (caller = "read" \/ mixerExc = "IndexError"))

\* C4: _connect_mixer has returned only with an open port whose preamble
\* begins with the 14 magic bytes and to which the handshake byte was sent;
\* a candidate with any other preamble is closed and the scan goes on
\* without an error.
C4_ConnectOnlyToMagic ==
  /\ Connected =>
       (portOpen /\ FirstBytesAreMagic(lastPreamble) /\ handshakeSent)
  /\ (lastPreamble # NoPreamble /\ ~FirstBytesAreMagic(lastPreamble)) =>
       (mpc = "scan" /\ ~portOpen /\ mixerExc = "none")

\* reconnected, after a read failure, to a device that sent more than the
\* 14 bytes
C4_Witness ==
  /\ Connected
  /\ outages > 0
  /\ Len(lastPreamble) > MagicLen

\* C5: in every Connected state the channel count is a positive integer.
C5_ChannelCountPositive == Connected => self_channels >= 1

\* C6: after read_volumes decoded an N-byte frame f, the stored vector has
\* exactly N elements, the i-th being f[i] / 100 and lying in [0, 1].
C6_SampleHasChannelCountElements ==
  (lastRead = "frame" /\ mpc \notin {"write", "dead"}) =>
    /\ Len(self_volumes) = Len(values)
    /\ \A i \in 1..Len(values) :
         /\ IsHundredth(self_volumes[i], values[i])
         /\ 0 <= self_volumes[i][1]
         /\ self_volumes[i][1] <= self_volumes[i][2]

\* C7: an outage ends only in Connected, with the channel count the new
\* handshake reported: whatever fails during rediscovery, the session keeps
\* scanning until it connects.
C7_OutageEndsConnected ==
  [][Rediscovering =>
       \/ Rediscovering'
       \/ (Connected' /\ Len(reply') = 1 /\ self_channels' = reply'[1])]_vars

\* C8: once both loops run, neither the router loop nor the mixer loop exits.
C8_LoopsNeverExit ==
  (phase = "running") => (mpc # "dead" /\ rpc # "dead")

\* C9: a snapshot taken after a wake-up by the mixer signal is the complete
\* sample stored before that signal, or a later complete sample.
C9_SnapshotAfterSignalIsFresh ==
  (rpc = "mask8" /\ wokenBy = "mixer") =>
    \/ \E k \in wakeSeq..Len(samples) : snapshot = samples[k]
    \/ snapshot \in (CompleteSamples \ {samples[k] : k \in 1..Len(samples)})

\* C10: every sample the mixer thread signalled is eventually covered by a
\* router pass whose snapshot was taken after the sample was stored (as long
\* as the router loop itself has not exited).
C10_SignalledSampleEventuallyApplied ==
  \A k \in 1..(MaxFrames + 1) :
    (sigSeq >= k) ~> (snapSeq >= k \/ rpc = "dead")

\* C11 (as stated): the router's wait returns only because of a signal of
\* the mixer thread.
C11_OnlyMixerWakes == wokenBy # "backend"

\* C11 (amended): the router's wait returns only after event_listen_stop()
\* set the stop flag during that wait, called by the mixer thread after
\* read_volumes returned or by the callback on a PulseAudio event; the
\* router is the only one that consumes it.
C11_WaitReturnsOnlyOnStop ==
  [][(rpc = "listen" /\ rpc' # "listen") =>
       /\ loopStop
       /\ stopBy \in {"mixer", "backend"}
       /\ (stopBy = "mixer" => (lastRead # "none" /\ sigSeq >= 1))
       /\ wokenBy' = stopBy
       /\ rpc' = "get"]_vars

\* the router has just been woken by a PulseAudio event
C11_Witness == rpc = "get" /\ wokenBy = "backend" /\ snapshot = <<>>

\* C12: a sink input whose application name is absent or empty gets no
\* volume-set call, whatever the routing table, also with a catch-all entry.
C12_UnnamedStreamUntouched ==
  /\ (lastCall.app = NoName) => (lastCall.kind \in {"none", "skip"})
  /\ (lastCall.kind = "skip") =>
       (lastCall.app = NoName /\ rpc = "sinks" /\ routerExc = "none")

\* an unnamed sink input was skipped although the table has a catch-all
C12_Witness ==
  /\ rpc = "sinks"
  /\ lastCall.kind = "skip"
  /\ any_controller \in 1..Len(snapshot)

\* C13: a volume-set call that fails with PulseOperationFailed is swallowed:
\* listen() stays in its for loop without an exception, the remaining sink
\* inputs can still be handled and volume-set, and the filter can be restored.
C13_FailureIsSwallowed ==
  (lastCall.kind = "failed") =>
    /\ rpc = "sinks"
    /\ routerExc = "none"
    /\ ENABLED SetMask9
    /\ (sinkCount < MaxStreams) => (ENABLED SinkVolumeSet /\ ENABLED SinkNoName)

\* the first volume-set call of a pass failed and a sink input is left
C13_Witness ==
  /\ rpc = "sinks"
  /\ lastCall.kind = "failed"
  /\ sinkCount = 1
  /\ sinkCount < MaxStreams

\* the stored sample as the last completed read_volumes left it
LastComplete ==
  IF samples = <<>> THEN <<Zero, Zero>> ELSE samples[Len(samples)]

\* the session is rediscovering after a failed read, or has reconnected and
\* not yet received a frame
AcrossOutage ==
  \/ Rediscovering
  \/ (lastRead = "reconnect" /\ mpc \in {"signal", "read"})

\* C14: a read_volumes call that hits a transport error writes no channel
\* value, so from the failure until the first frame after the reconnect the
\* stored sample is the last complete one and every snapshot the router has
\* taken is a complete sample, never a torn or partial one.
C14_NoTornSnapshotAcrossOutage ==
  /\ AcrossOutage => self_volumes = LastComplete
  /\ (AcrossOutage /\ rpc = "mask8") =>
       snapshot \in {samples[k] : k \in 1..Len(samples)}

\* the router is at the top of a pass that is not its first one
LaterPassBegins == rpc = "get" /\ snapshot = <<>> /\ snapSeq >= 1

C16_ReadsOnlyWhileConnected ==
  [][/\ (frames' # frames \/ outages' # outages) =>
          /\ mpc = "read"
          /\ portOpen
          /\ handshakeSent
          /\ FirstBytesAreMagic(lastPreamble)
          /\ Len(reply) = 1
          /\ mixerExc = "none"
     /\ (outages' # outages) =>
          /\ mpc' = "connect"
          /\ caller' = "read"
          /\ frames' = frames
     /\ (Rediscovering /\ ~Rediscovering') =>
          (mpc' \in {"read", "signal", "dead"} /\ frames' = frames)]_vars

\* both loops run and a failed read has started rediscovery
C16_Witness ==
  /\ phase = "running"
  /\ mpc = "connect"
  /\ caller = "read"
  /\ outages >= 1
  /\ frames >= 1

\* C17: at most one serial port is open in every reachable state; it is the
\* one self._port refers to, and when _connect_mixer has returned it is the
\* accepted device's.
C17_AtMostOnePortOpen ==
  /\ openCount <= 1
  /\ portOpen <=> (openCount = 1)
  /\ Connected => (openCount = 1 /\ FirstBytesAreMagic(lastPreamble))
  /\ (mpc = "scan") => (openCount = 0)

\* reconnected after an outage in which a candidate was opened again
C17_Witness ==
  /\ Connected
  /\ lastRead = "reconnect"
  /\ openCount = 1
  /\ outages >= 1

\* C18: sink inputs are enumerated and volume-set calls are made only while
\* the event filter is event_masks[8], which is selected after the snapshot
\* is complete; event_listen is entered and waits only while the filter is
\* event_masks[9], which is restored after the last volume-set call.
C18_EventFilterProtocol ==
  /\ (rpc \in {"list", "sinks"}) =>
       (mask = 8 /\ Len(snapshot) = Len(self_volumes))
  /\ (lastCall.kind \in {"set", "failed"}) => (mask = 8)
  /\ (rpc \in {"listen_enter", "listen"}) =>
       (mask = 9 /\ lastCall.kind = "none")
  /\ (rpc \in {"get", "mask8"}) => (mask = 9)

\* the router waits in event_listen after a pass in which the mixer thread
\* stored a sample
C18_Witness ==
  /\ rpc = "listen"
  /\ mask = 9
  /\ snapSeq >= 1
  /\ Len(samples) > snapSeq

\* a volume-set call was made for the last sink input handled
VolumeCallMade == lastCall.kind \in {"set", "failed"}

\* C19: within one pass the copy taken at its top does not change, and two
\* consecutive volume-set calls for the same channel pass the same volume,
\* whatever the mixer thread stores meanwhile.
C19_OneSnapshotPerPass ==
  [][/\ (rpc \in {"list", "sinks"} /\ rpc' \in {"sinks", "listen_enter"}) =>
          snapshot' = snapshot
     /\ (/\ rpc = "sinks" /\ rpc' = "sinks"
         /\ VolumeCallMade /\ VolumeCallMade'
         /\ sinkCount' = sinkCount + 1
         /\ lastCall'.index = lastCall.index) =>
          lastCall'.vol = lastCall.vol]_vars

\* the second volume-set call of a pass used a value that the mixer thread
\* has overwritten since the snapshot
C19_Witness ==
  /\ rpc = "sinks"
  /\ sinkCount = 2
  /\ lastCall.kind = "set"
  /\ lastCall.vol # self_volumes[lastCall.index]
  /\ mpc # "write"

\* C20: every volume passed to a volume-set call was decoded from a byte of
\* a device frame, never the 0 that __init__ put in the vector (stated here
\* for the runs in which the device reports at least one channel and no read
\* has failed).
C20_NoPlaceholderApplied ==
  (VolumeCallMade /\ self_channels >= 1 /\ outages = 0) =>
    (\E b \in FrameBytes : IsHundredth(lastCall.vol, b))

====
